---- MODULE Spec2Model ----
(***************************************************************************)
(* Dataset-Previewer: the KPI analyzer (src/kpi_analyzer.py) and the       *)
(* analytics agent (src/data_agent.py) as a state machine over one         *)
(* caller-owned table.                                                     *)
(*                                                                         *)
(* Representation.                                                         *)
(*   - A Python string is a sequence of pieces.  A column name is a        *)
(*     sequence of one-character strings, so that lower() and the `in`     *)
(*     substring test are computed character by character.  A literal of   *)
(*     the source (a rule label, a description template half) is kept as   *)
(*     one piece.  String concatenation is \o.                             *)
(*   - A cell is <<>> when missing (NaN / None / NaT) and <<v>> otherwise. *)
(*   - A column is [name, dtype, data]; a frame is [index, columns].       *)
(*   - A number produced by sum()/mean() is the exact rational             *)
(*     [num, den]; NaN is the record [nan |-> TRUE].                       *)
(***************************************************************************)
EXTENDS Integers, Sequences, FiniteSets, TLC

VARIABLES
    df,        \* the caller-owned table (a pandas DataFrame)
    df0,       \* the table as the caller built it (history, never written)
    analyzer,  \* KPIAnalyzer(df): numeric_df, categorical_df (self.df aliases df)
    agent,     \* DataExplorerAgent(df): its own numeric-only frame
    ret,       \* what the last invocation returned or raised
    calls      \* the estimator calls the last invocation made (sklearn)

vars == <<df, df0, analyzer, agent, ret, calls>>

-----------------------------------------------------------------------------
(* Bounds of the explored inputs.                                          *)

MaxRows == 2
MaxCols == 2
MaxOver == 2
MaxClusters == 3

(* Program constants.                                                      *)

DetailLimit == 25
DefaultDecimals == 2
PercentDecimals == 1
GroupThreshold == 100
RandomState == 42
NInit == 10
DefaultContamination == 5

-----------------------------------------------------------------------------
(* Strings.                                                                *)

UpperCase ==
  << "A", "B", "C", "D", "E", "F", "G", "H", "I", "J", "K", "L", "M",
     "N", "O", "P", "Q", "R", "S", "T", "U", "V", "W", "X", "Y", "Z" >>

LowerCase ==
  << "a", "b", "c", "d", "e", "f", "g", "h", "i", "j", "k", "l", "m",
     "n", "o", "p", "q", "r", "s", "t", "u", "v", "w", "x", "y", "z" >>

\* str.lower(), one character.
LowerChar(c) ==
  IF \E i \in 1..Len(UpperCase) : UpperCase[i] = c
  THEN LowerCase[CHOOSE i \in 1..Len(UpperCase) : UpperCase[i] = c]
  ELSE c

\* str.lower()
Lower(s) == [i \in 1..Len(s) |-> LowerChar(s[i])]

\* `keyword in s`
Contains(keyword, s) ==
  \E i \in 0..(Len(s) - Len(keyword)) :
     SubSeq(s, i + 1, i + Len(keyword)) = keyword

\* str.replace(old, new) for a one-character old
Replace(s, old, new) == [i \in 1..Len(s) |-> IF s[i] = old THEN new ELSE s[i]]

NNBSP == "U+202F"

DigitChars == << "0", "1", "2", "3", "4", "5", "6", "7", "8", "9" >>

RECURSIVE Digits(_)
\* the decimal digits of a natural number
Digits(n) ==
  IF n < 10 THEN << DigitChars[n + 1] >>
  ELSE Digits(n \div 10) \o << DigitChars[(n % 10) + 1] >>

RECURSIVE ZeroPad(_, _)
\* digits left-padded with "0" to the given width
ZeroPad(s, width) == IF Len(s) >= width THEN s ELSE ZeroPad(<<"0">> \o s, width)

RECURSIVE Group(_)
\* the "," option of the format mini-language: groups of three digits
Group(s) ==
  IF Len(s) <= 3 THEN s
  ELSE Group(SubSeq(s, 1, Len(s) - 3)) \o <<",">> \o SubSeq(s, Len(s) - 2, Len(s))

RECURSIVE Pow10(_)
Pow10(k) == IF k = 0 THEN 1 ELSE 10 * Pow10(k - 1)

Abs(n) == IF n < 0 THEN -n ELSE n

-----------------------------------------------------------------------------
(* Numbers and their formatting.                                           *)

NaN == [nan |-> TRUE]
Rat(n, d) == [nan |-> FALSE, num |-> n, den |-> d]

\* pd.isna(value)
IsNa(value) == value.nan

\* round(|num| * 10^decimals / den), ties to even, as the "f" presentation
\* type rounds the exactly represented value.
RoundScaled(value, decimals) ==
  LET n == Abs(value.num) * Pow10(decimals)
      q == n \div value.den
      r == n % value.den
  IN  IF 2 * r > value.den THEN q + 1
      ELSE IF 2 * r < value.den THEN q
      ELSE IF q % 2 = 1 THEN q + 1 ELSE q

\* f"{value:.{decimals}f}", and with grouping f"{value:,.{decimals}f}"
Fixed(value, decimals, grouping) ==
  LET scaled == RoundScaled(value, decimals)
      whole  == Digits(scaled \div Pow10(decimals))
      frac   == ZeroPad(Digits(scaled % Pow10(decimals)), decimals)
      sign   == IF value.num < 0 THEN <<"-">> ELSE <<>>
  IN  sign \o (IF grouping THEN Group(whole) ELSE whole)
           \o (IF decimals > 0 THEN <<".">> \o frac ELSE <<>>)

_format_number_two_decimals(value, decimals) ==
  IF IsNa(value) THEN << "N/A" >>
  ELSE LET formatted ==
             IF Abs(value.num) >= GroupThreshold * value.den
             THEN Fixed(value, 0, TRUE)
             ELSE Fixed(value, DefaultDecimals, TRUE)
       IN  Replace(formatted, ",", NNBSP)

_format_number(value, decimals) ==
  IF IsNa(value) THEN << "N/A" >>
  ELSE LET formatted ==
             IF Abs(value.num) >= GroupThreshold * value.den
             THEN Fixed(value, 0, TRUE)
             ELSE Fixed(value, decimals, TRUE)
       IN  Replace(formatted, ",", NNBSP)

_format_percent(value, decimals) ==
  IF IsNa(value) THEN << "N/A" >>
  ELSE Fixed(Rat(value.num * 100, value.den), decimals, FALSE) \o << "%" >>

-----------------------------------------------------------------------------
(* Frames (pandas), as far as the two classes use them.                    *)

NumberDtypes == {"int64", "float64"}
CategoricalDtypes == {"object", "category"}
DatetimeDtypes == {"datetime64[ns]", "datetimetz"}

\* DataFrame.shape
Rows(frame) == Len(frame.index)
Cols(frame) == Len(frame.columns)

\* DataFrame.empty: some axis has length 0
Empty(frame) == Rows(frame) = 0 \/ Cols(frame) = 0

\* pd.DataFrame()
EmptyFrame == [index |-> <<>>, columns |-> <<>>]

IsPresent(cell) == cell # <<>>

\* DataFrame.select_dtypes(include=...): a new frame over the same index
select_dtypes(frame, include) ==
  [index   |-> frame.index,
   columns |-> SelectSeq(frame.columns, LAMBDA c : c.dtype \in include)]

\* Series.dropna(): the non-missing values, in row order
dropna(data) ==
  LET kept == SelectSeq(data, IsPresent)
  IN  [i \in 1..Len(kept) |-> kept[i][1]]

\* DataFrame.fillna(value): a new frame, missing cells replaced
fillna(frame, value) ==
  [index   |-> frame.index,
   columns |-> [j \in 1..Cols(frame) |->
                  [frame.columns[j] EXCEPT
                     !.data = [i \in 1..Rows(frame) |->
                                 IF IsPresent(frame.columns[j].data[i])
                                 THEN frame.columns[j].data[i]
                                 ELSE << value >>]]]]

\* frame[mask]: the rows whose mask is TRUE, values and index labels kept
RowsWhere(frame, mask) ==
  LET keep == SelectSeq([i \in 1..Rows(frame) |-> i], LAMBDA i : mask[i])
  IN  [index   |-> [k \in 1..Len(keep) |-> frame.index[keep[k]]],
       columns |-> [j \in 1..Cols(frame) |->
                      [frame.columns[j] EXCEPT
                         !.data = [k \in 1..Len(keep) |->
                                     frame.columns[j].data[keep[k]]]]]]

\* Series.empty
SeriesEmpty(series) == Len(series) = 0

RECURSIVE SumFrom(_, _)
SumFrom(series, i) ==
  IF i > Len(series) THEN 0 ELSE series[i] + SumFrom(series, i + 1)

\* Series.sum(): 0 for an empty series
series_sum(series) == Rat(SumFrom(series, 1), 1)

\* Series.mean(): NaN for an empty series
series_mean(series) ==
  IF Len(series) = 0 THEN NaN ELSE Rat(SumFrom(series, 1), Len(series))

\* Series.nunique() of a series without missing values
nunique(series) == Cardinality({series[i] : i \in 1..Len(series)})

\* Timestamps are <<year, month, day>>; their order
DateOrd(d) == d[1] * 10000 + d[2] * 100 + d[3]

series_max(series) ==
  series[CHOOSE i \in 1..Len(series) :
           \A k \in 1..Len(series) : DateOrd(series[k]) <= DateOrd(series[i])]

series_min(series) ==
  series[CHOOSE i \in 1..Len(series) :
           \A k \in 1..Len(series) : DateOrd(series[i]) <= DateOrd(series[k])]

\* Timestamp.strftime("%Y-%m-%d")
strftime(d) ==
  ZeroPad(Digits(d[1]), 4) \o <<"-">> \o ZeroPad(Digits(d[2]), 2)
     \o <<"-">> \o ZeroPad(Digits(d[3]), 2)

Occurrences(series, v) == Cardinality({i \in 1..Len(series) : series[i] = v})

FirstAt(series, v) == CHOOSE i \in 1..Len(series) :
                         series[i] = v /\ \A k \in 1..(i - 1) : series[k] # v

RECURSIVE SortCounts(_, _)
\* the distinct values by descending count (ties: first appearance first)
SortCounts(series, left) ==
  IF left = {} THEN <<>>
  ELSE LET top == CHOOSE v \in left : \A w \in left :
                     \/ Occurrences(series, v) > Occurrences(series, w)
                     \/ /\ Occurrences(series, v) = Occurrences(series, w)
                        /\ FirstAt(series, v) <= FirstAt(series, w)
       IN  << top >> \o SortCounts(series, left \ {top})

\* Series.value_counts().reset_index(), columns renamed [col, "Occurrences"],
\* the counts cast to int
value_counts(col, series) ==
  LET order == SortCounts(series, {series[i] : i \in 1..Len(series)})
  IN  [index   |-> [i \in 1..Len(order) |-> i - 1],
       columns |-> << [name |-> col, dtype |-> "object",
                       data |-> [i \in 1..Len(order) |-> << order[i] >>]],
                      [name |-> << "Occurrences" >>, dtype |-> "int64",
                       data |-> [i \in 1..Len(order) |->
                                   << Occurrences(series, order[i]) >>]] >>]

-----------------------------------------------------------------------------
(* KPIAnalyzer.                                                            *)

KPIMetric(label, value, column, description) ==
  [label |-> label, value |-> value, column |-> column,
   description |-> description]

KPIDetail(title, dataframe, description) ==
  [title |-> title, dataframe |-> dataframe, description |-> description]

\* column=None
None == << "None" >>

\* KPIAnalyzer.__init__; self.df is the caller's table itself
KPIAnalyzerInit(frame) ==
  [numeric_df     |-> select_dtypes(frame, NumberDtypes),
   categorical_df |-> select_dtypes(frame, CategoricalDtypes)]

_base_metrics(self_df) ==
  << KPIMetric(<< "Lignes disponibles" >>,
               _format_number(Rat(Rows(self_df), 1), 0), None,
               << "Nombre total d'enregistrements dans le fichier." >>),
     KPIMetric(<< "Colonnes disponibles" >>,
               _format_number(Rat(Cols(self_df), 1), 0), None,
               << "Nombre total de colonnes détectées." >>) >>

\* the rules of _numeric_keyword_metrics, in their order
NumericRules ==
  << [ keywords |-> << <<"r", "e", "v", "e", "n", "u", "e">>,
                      <<"r", "e", "v", "e", "n", "u">>,
                      <<"s", "a", "l", "e", "s">>,
                      <<"v", "e", "n", "t", "e">>,
                      <<"t", "u", "r", "n", "o", "v", "e", "r">>,
                      <<"i", "n", "c", "o", "m", "e">>,
                      <<"c", "a">> >>,
       label |-> "Revenu total",
       agg |-> "sum",
       formatter |-> "_format_number",
       description |-> << "Somme totale des montants de la colonne ", "." >> ],
     [ keywords |-> << <<"p", "r", "o", "f", "i", "t">>,
                      <<"b", "e", "n", "e", "f">>,
                      <<"m", "a", "r", "g", "i", "n">> >>,
       label |-> "Profit total",
       agg |-> "sum",
       formatter |-> "_format_number",
       description |-> << "Bénéfice cumulé calculé sur la colonne ", "." >> ],
     [ keywords |-> << <<"c", "o", "s", "t">>,
                      <<"c", "o", "u", "t">>,
                      <<"e", "x", "p", "e", "n", "s", "e">>,
                      <<"d", "e", "p", "e", "n", "s", "e">> >>,
       label |-> "Coût total",
       agg |-> "sum",
       formatter |-> "_format_number",
       description |-> << "Somme totale des coûts basés sur ", "." >> ],
     [ keywords |-> << <<"p", "r", "i", "c", "e">>,
                      <<"p", "r", "i", "x">>,
                      <<"t", "a", "r", "i", "f">>,
                      <<"a", "m", "o", "u", "n", "t">>,
                      <<"m", "o", "n", "t", "a", "n", "t">> >>,
       label |-> "Valeur moyenne",
       agg |-> "mean",
       formatter |-> "_format_number",
       description |-> << "Valeur moyenne observée dans la colonne ", "." >> ],
     [ keywords |-> << <<"q", "u", "a", "n", "t", "i", "t", "y">>,
                      <<"q", "u", "a", "n", "t", "i", "t", "e">>,
                      <<"q", "t", "y">>,
                      <<"v", "o", "l", "u", "m", "e">> >>,
       label |-> "Quantité totale",
       agg |-> "sum",
       formatter |-> "_format_number",
       description |-> << "Volume total agrégé pour la colonne ", "." >> ],
     [ keywords |-> << <<"r", "a", "t", "e">>,
                      <<"t", "a", "u", "x">>,
                      <<"r", "a", "t", "i", "o">>,
                      <<"p", "o", "u", "r", "c", "e", "n", "t", "a", "g", "e">> >>,
       label |-> "Taux moyen",
       agg |-> "mean",
       formatter |-> "_format_percent",
       description |-> << "Taux moyen calculé pour la colonne ", "." >> ],
     [ keywords |-> << <<"s", "c", "o", "r", "e">>,
                      <<"n", "o", "t", "e">>,
                      <<"e", "v", "a", "l", "u", "a", "t", "i", "o", "n">> >>,
       label |-> "Score moyen",
       agg |-> "mean",
       formatter |-> "_format_number",
       description |-> << "Score moyen observé dans la colonne ", "." >> ],
     [ keywords |-> << <<"a", "g", "e">> >>,
       label |-> "Âge moyen",
       agg |-> "mean",
       formatter |-> "_format_number",
       description |-> << "Âge moyen calculé sur la colonne ", "." >> ],
     [ keywords |-> << <<"d", "u", "r", "e", "e">>,
                      <<"d", "u", "r", "a", "t", "i", "o", "n">>,
                      <<"t", "e", "m", "p", "s">>,
                      <<"t", "i", "m", "e">> >>,
       label |-> "Durée moyenne",
       agg |-> "mean",
       formatter |-> "_format_number",
       description |-> << "Durée moyenne mesurée dans la colonne ", "." >> ] >>

\* the rules of _categorical_metrics, in their order
CategoricalRules ==
  << [ keywords |-> << <<"c", "l", "i", "e", "n", "t">>,
                      <<"c", "u", "s", "t", "o", "m", "e", "r">>,
                      <<"u", "s", "e", "r">>,
                      <<"u", "t", "i", "l", "i", "s", "a", "t", "e", "u", "r">>,
                      <<"c", "o", "m", "p", "t", "e">> >>,
       label |-> "Clients uniques",
       description |-> << "Nombre de clients/identifiants uniques présents dans ", "." >> ],
     [ keywords |-> << <<"p", "r", "o", "d", "u", "i", "t">>,
                      <<"p", "r", "o", "d", "u", "c", "t">>,
                      <<"i", "t", "e", "m">>,
                      <<"a", "r", "t", "i", "c", "l", "e">> >>,
       label |-> "Produits uniques",
       description |-> << "Nombre de produits distincts présents dans ", "." >> ],
     [ keywords |-> << <<"v", "i", "l", "l", "e">>,
                      <<"c", "i", "t", "y">>,
                      <<"p", "a", "y", "s">>,
                      <<"c", "o", "u", "n", "t", "r", "y">>,
                      <<"r", "e", "g", "i", "o", "n">> >>,
       label |-> "Localisations uniques",
       description |-> << "Nombre d'emplacements distincts détectés dans ", "." >> ] >>

col_as_written(col) == col

\* col.lower()
col_lower(col) == Lower(col)

\* any(keyword in col_lower for keyword in rule["keywords"])
AnyKeyword(rule, lowered) ==
  \E k \in 1..Len(rule.keywords) : Contains(rule.keywords[k], lowered)

\* rule["agg"](series)
Agg(rule, series) ==
  IF rule.agg = "sum" THEN series_sum(series) ELSE series_mean(series)

\* rule.get("formatter", _format_number)(value)
Format(rule, value) ==
  IF rule.formatter = "_format_percent"
  THEN _format_percent(value, PercentDecimals)
  ELSE _format_number(value, DefaultDecimals)

\* f"{label} ({col})"
Label(label, col) == << label, " (" >> \o col \o << ")" >>

\* template.format(column=col)
Describe(template, col) == << template[1] >> \o col \o << template[2] >>

NumericFallback(col, series) ==
  << KPIMetric(Label("Moyenne", col),
               _format_number(series_mean(series), DefaultDecimals), col,
               << "Valeur moyenne observée pour " >> \o col \o << "." >>),
     KPIMetric(Label("Somme", col),
               _format_number(series_sum(series), DefaultDecimals), col,
               << "Somme totale des valeurs de " >> \o col \o << "." >>) >>

NumericRuleMetric(rule, col, series) ==
  KPIMetric(Label(rule.label, col), Format(rule, Agg(rule, series)), col,
            Describe(rule.description, col))

RECURSIVE NumericRuleLoopNoBreak(_, _, _)
NumericRuleLoopNoBreak(col, series, i) ==
  IF i > Len(NumericRules) THEN NumericFallback(col, series)
  ELSE IF AnyKeyword(NumericRules[i], col_lower(col))
       THEN << NumericRuleMetric(NumericRules[i], col, series) >>
               \o NumericRuleLoopNoBreak(col, series, i + 1)
       ELSE NumericRuleLoopNoBreak(col, series, i + 1)

RECURSIVE NumericRuleLoop(_, _, _)
\* for rule in rules: ... break / else: the rules from the i-th on
NumericRuleLoop(col, series, i) ==
  IF i > Len(NumericRules) THEN NumericFallback(col, series)
  ELSE IF AnyKeyword(NumericRules[i], col_lower(col))
       THEN << NumericRuleMetric(NumericRules[i], col, series) >>
       ELSE NumericRuleLoop(col, series, i + 1)

NumericColumnNoSkip(column) ==
  NumericRuleLoop(column.name, dropna(column.data), 1)

\* the body of `for col in self.numeric_df.columns`
NumericColumn(column) ==
  LET series == dropna(column.data)
  IN  IF SeriesEmpty(series) THEN <<>>
      ELSE NumericRuleLoop(column.name, series, 1)

RECURSIVE NumericColumnsFrom(_, _)
NumericColumnsFrom(columns, j) ==
  IF j > Len(columns) THEN <<>>
  ELSE NumericColumn(columns[j]) \o NumericColumnsFrom(columns, j + 1)

_numeric_keyword_metrics(self) ==
  IF Empty(self.numeric_df) THEN <<>>
  ELSE NumericColumnsFrom(self.numeric_df.columns, 1)

RECURSIVE CategoricalRuleLoop(_, _, _)
CategoricalRuleLoop(col, series, i) ==
  IF i > Len(CategoricalRules) THEN <<>>
  ELSE IF AnyKeyword(CategoricalRules[i], col_lower(col))
       THEN << KPIMetric(Label(CategoricalRules[i].label, col),
                         _format_number(Rat(nunique(series), 1), 0), col,
                         Describe(CategoricalRules[i].description, col)) >>
       ELSE CategoricalRuleLoop(col, series, i + 1)

\* the body of `for col in self.categorical_df.columns`
CategoricalColumn(column) ==
  LET series == dropna(column.data)
  IN  IF SeriesEmpty(series) THEN <<>>
      ELSE CategoricalRuleLoop(column.name, series, 1)

RECURSIVE CategoricalColumnsFrom(_, _)
CategoricalColumnsFrom(columns, j) ==
  IF j > Len(columns) THEN <<>>
  ELSE CategoricalColumn(columns[j]) \o CategoricalColumnsFrom(columns, j + 1)

_categorical_metrics(self) ==
  IF Empty(self.categorical_df) THEN <<>>
  ELSE CategoricalColumnsFrom(self.categorical_df.columns, 1)

\* the body of `for col in datetime_cols`; to_datetime(errors="coerce")
\* leaves a datetime column as it is
DatetimeColumn(column) ==
  LET series == dropna(column.data)
      col    == column.name
  IN  IF SeriesEmpty(series) THEN <<>>
      ELSE << KPIMetric(Label("Date la plus récente", col),
                        strftime(series_max(series)), col,
                        << "Dernière date disponible dans " >> \o col \o << "." >>),
              KPIMetric(Label("Date la plus ancienne", col),
                        strftime(series_min(series)), col,
                        << "Première date disponible dans " >> \o col \o << "." >>) >>

RECURSIVE DatetimeColumnsFrom(_, _)
DatetimeColumnsFrom(columns, j) ==
  IF j > Len(columns) THEN <<>>
  ELSE DatetimeColumn(columns[j]) \o DatetimeColumnsFrom(columns, j + 1)

_datetime_metrics(self_df) ==
  LET datetime_cols == select_dtypes(self_df, DatetimeDtypes).columns
  IN  IF Len(datetime_cols) = 0 THEN <<>>
      ELSE DatetimeColumnsFrom(datetime_cols, 1)

SkipDetailOffByOne(unique_count) ==
  unique_count = 0 \/ unique_count >= DetailLimit

\* if unique_count == 0 or unique_count > 25: continue
SkipDetail(unique_count) ==
  unique_count = 0 \/ unique_count > DetailLimit

\* the body of `for col in self.categorical_df.columns`
DetailColumn(column) ==
  LET series == dropna(column.data)
  IN  IF SkipDetail(nunique(series)) THEN <<>>
      ELSE << KPIDetail(<< "Répartition de " >> \o column.name,
                        value_counts(column.name, series),
                        << "Top catégories pour aider à identifier les segments dominants." >>) >>

RECURSIVE DetailColumnsFrom(_, _)
DetailColumnsFrom(columns, j) ==
  IF j > Len(columns) THEN <<>>
  ELSE DetailColumn(columns[j]) \o DetailColumnsFrom(columns, j + 1)

_top_categories_details(self) ==
  IF Empty(self.categorical_df) THEN <<>>
  ELSE DetailColumnsFrom(self.categorical_df.columns, 1)

Key(metric) == << metric.label, metric.column >>

RECURSIVE DedupExtendFrom(_, _, _, _)
DedupExtendFrom(metrics, i, seen, unique_metrics) ==
  IF i > Len(metrics) THEN unique_metrics
  ELSE IF Key(metrics[i]) \in seen
       THEN DedupExtendFrom(metrics, i + 1, seen, unique_metrics)
       ELSE DedupExtendFrom(metrics, i + 1, seen \cup {Key(metrics[i])},
                            unique_metrics \o metrics)

DedupExtend(metrics) == DedupExtendFrom(metrics, 1, {}, <<>>)

RECURSIVE DedupByColumnFrom(_, _, _, _)
DedupByColumnFrom(metrics, i, seen, unique_metrics) ==
  IF i > Len(metrics) THEN unique_metrics
  ELSE IF metrics[i].column \in seen
       THEN DedupByColumnFrom(metrics, i + 1, seen, unique_metrics)
       ELSE DedupByColumnFrom(metrics, i + 1, seen \cup {metrics[i].column},
                              Append(unique_metrics, metrics[i]))

DedupByColumn(metrics) == DedupByColumnFrom(metrics, 1, {}, <<>>)

RECURSIVE DedupFrom(_, _, _, _)
\* for metric in metrics: skip a key already seen, else record and append
DedupFrom(metrics, i, seen, unique_metrics) ==
  IF i > Len(metrics) THEN unique_metrics
  ELSE IF Key(metrics[i]) \in seen
       THEN DedupFrom(metrics, i + 1, seen, unique_metrics)
       ELSE DedupFrom(metrics, i + 1, seen \cup {Key(metrics[i])},
                      Append(unique_metrics, metrics[i]))

\* Deduplicate metrics by (label, column)
Dedup(metrics) == DedupFrom(metrics, 1, {}, <<>>)

\* KPIAnalyzer.suggest(): (unique_metrics, details)
suggest(self_df, self) ==
  LET metrics == _base_metrics(self_df)
                   \o _numeric_keyword_metrics(self)
                   \o _categorical_metrics(self)
                   \o _datetime_metrics(self_df)
      details == _top_categories_details(self)
  IN  [metrics |-> Dedup(metrics), details |-> details]

DropMissingDatesInPlace(self_df) ==
  LET datetime_cols == select_dtypes(self_df, DatetimeDtypes).columns
  IN  RowsWhere(self_df,
                [i \in 1..Rows(self_df) |->
                   \A j \in 1..Len(datetime_cols) :
                      IsPresent(datetime_cols[j].data[i])])

\* self.df, which is the caller's table, as suggest() leaves it: the method
\* and its stages only read it (shape, select_dtypes, [col]) and work on the
\* series that dropna() returns
SelfDfAfterSuggest(self_df) == self_df

-----------------------------------------------------------------------------
(* DataExplorerAgent.                                                      *)

\* DataExplorerAgent.__init__: only the numeric columns are kept
DataExplorerAgentInit(frame) == [df |-> select_dtypes(frame, NumberDtypes)]

\* sns.heatmap of the correlation matrix, saved to the buffer; an empty
\* matrix is left to the plotting library, which renders or raises
HeatmapOutcomes(self) ==
  IF Cols(self.df) = 0 THEN {"png", "ValueError"} ELSE {"png"}

\* correlation_heatmap(): the buffer, rewound by buffer.seek(0)
correlation_heatmap(self, outcome) ==
  IF outcome = "png"
  THEN [op |-> "correlation_heatmap", raised |-> FALSE,
        value |-> [pos |-> 0,
                   corr |-> [j \in 1..Cols(self.df) |-> self.df.columns[j].name]]]
  ELSE [op |-> "correlation_heatmap", raised |-> TRUE, value |-> outcome]

\* IsolationForest.predict: 1 or -1 for each row
IsolationForestOutcomes(self) ==
  IF Empty(self.df) THEN {<<>>} ELSE [1..Rows(self.df) -> {-1, 1}]

detect_outliers_no_guard(self, contamination, preds) ==
  LET numeric_data == fillna(self.df, 0)
  IN  [ret   |-> [op |-> "detect_outliers", raised |-> FALSE,
                  value |-> RowsWhere(self.df,
                              [i \in 1..Rows(self.df) |->
                                 i \in DOMAIN preds /\ preds[i] = -1])],
       calls |-> << [fn |-> "IsolationForest", contamination |-> contamination,
                     random_state |-> RandomState],
                    [fn |-> "fit", data |-> numeric_data],
                    [fn |-> "predict", data |-> numeric_data] >>]

\* detect_outliers(contamination): the rows predicted -1, original values
detect_outliers(self, contamination, preds) ==
  IF Empty(self.df)
  THEN [ret   |-> [op |-> "detect_outliers", raised |-> FALSE,
                   value |-> EmptyFrame],
        calls |-> <<>>]
  ELSE LET numeric_data == fillna(self.df, 0)
       IN  [ret   |-> [op |-> "detect_outliers", raised |-> FALSE,
                       value |-> RowsWhere(self.df,
                                   [i \in 1..Rows(self.df) |-> preds[i] = -1])],
            calls |-> << [fn |-> "IsolationForest",
                          contamination |-> contamination,
                          random_state |-> RandomState],
                         [fn |-> "fit", data |-> numeric_data],
                         [fn |-> "predict", data |-> numeric_data] >>]

\* KMeans.fit_predict: a label in 0..n_clusters-1 for each row, or
\* ValueError when there are fewer rows than clusters
KMeansOutcomes(self, n_clusters) ==
  IF Empty(self.df) \/ n_clusters > Rows(self.df) THEN {<<>>}
  ELSE [1..Rows(self.df) -> 0..(n_clusters - 1)]

\* pd.RangeIndex(n)
RangeIndex(n) == [i \in 1..n |-> i - 1]

cluster_default_index(self, n_clusters, labels) ==
  IF Empty(self.df)
  THEN [ret   |-> [op |-> "cluster", raised |-> FALSE,
                   value |-> [index |-> <<>>, values |-> <<>>]],
        calls |-> <<>>]
  ELSE LET data == fillna(self.df, 0)
           made == << [fn |-> "KMeans", n_clusters |-> n_clusters,
                       n_init |-> NInit, random_state |-> RandomState],
                      [fn |-> "fit_predict", data |-> data] >>
       IN  IF n_clusters > Rows(self.df)
           THEN [ret   |-> [op |-> "cluster", raised |-> TRUE,
                            value |-> "ValueError"],
                 calls |-> made]
           ELSE [ret   |-> [op |-> "cluster", raised |-> FALSE,
                            value |-> [index  |-> RangeIndex(Len(labels)),
                                       values |-> labels]],
                 calls |-> made]

\* cluster(n_clusters): pd.Series(labels, index=self.df.index)
cluster(self, n_clusters, labels) ==
  IF Empty(self.df)
  THEN [ret   |-> [op |-> "cluster", raised |-> FALSE,
                   value |-> [index |-> <<>>, values |-> <<>>]],
        calls |-> <<>>]
  ELSE LET data == fillna(self.df, 0)
           made == << [fn |-> "KMeans", n_clusters |-> n_clusters,
                       n_init |-> NInit, random_state |-> RandomState],
                      [fn |-> "fit_predict", data |-> data] >>
       IN  IF n_clusters > Rows(self.df)
           THEN [ret   |-> [op |-> "cluster", raised |-> TRUE,
                            value |-> "ValueError"],
                 calls |-> made]
           ELSE [ret   |-> [op |-> "cluster", raised |-> FALSE,
                            value |-> [index  |-> self.df.index,
                                       values |-> labels]],
                 calls |-> made]

-----------------------------------------------------------------------------------------------------------------------------------------------------
(* The tables the caller may hold.                                         *)

SalesAmount == <<"S", "a", "l", "e", "s", "_", "A", "m", "o", "u", "n", "t">>
ClientRevenueUpper ==
  <<"C", "L", "I", "E", "N", "T", "_", "R", "E", "V", "E", "N", "U", "E">>
ClientRevenueLower ==
  <<"c", "l", "i", "e", "n", "t", "_", "r", "e", "v", "e", "n", "u", "e">>
ConversionRate ==
  <<"c", "o", "n", "v", "e", "r", "s", "i", "o", "n", "_", "r", "a", "t", "e">>
X == <<"x">>

\* the column names of the tables given to the analyzer, and of those given
\* to the agent (which never reads a name)
Names == << SalesAmount, ClientRevenueUpper, ClientRevenueLower, ConversionRate, X >>
AgentNames == << SalesAmount, ConversionRate, X >>

Dtypes == {"float64", "object", "datetime64[ns]", "bool"}

NumValues == << 250, 1, -100, 7 >>

\* the value a present cell of row i holds; object cells cycle through
\* `period` category codes
CellValue(dtype, i, period) ==
  CASE dtype = "float64"        -> NumValues[((i - 1) % Len(NumValues)) + 1]
    [] dtype = "object"         -> ((i - 1) % period) + 1
    [] dtype = "datetime64[ns]" -> << 2024 - i, ((5 * i) % 12) + 1, ((11 * i) % 28) + 1 >>
    [] OTHER                    -> (i % 2 = 0)

ColumnData(dtype, n, present, period) ==
  [i \in 1..n |-> IF i \in present THEN << CellValue(dtype, i, period) >> ELSE <<>>]

\* column names are unique strings
UniqueNames(columns) ==
  \A i, j \in 1..Len(columns) : columns[i].name = columns[j].name => i = j

RECURSIVE Ascending(_)
\* the members of a set of numbers, smallest first
Ascending(S) ==
  IF S = {} THEN <<>>
  ELSE LET least == CHOOSE a \in S : \A b \in S : a <= b
       IN  << least >> \o Ascending(S \ {least})

\* the table of n rows whose columns are named by names[a], a in `chosen`,
\* in the order of `names`; column a has dtype dtypes[a] and its first
\* missing[a] cells missing
TableOf(names, index, chosen, dtypes, missing) ==
  LET order == Ascending(chosen)
  IN  [index   |-> index,
       columns |-> [j \in 1..Len(order) |->
                      [name  |-> names[order[j]],
                       dtype |-> dtypes[order[j]],
                       data  |-> ColumnData(dtypes[order[j]], Len(index),
                                            (missing[order[j]] + 1)..Len(index),
                                            2)]]]

\* a RangeIndex, or caller-chosen labels
Indexes(n) ==
  IF n = 0 THEN { <<>> }
  ELSE { RangeIndex(n), [i \in 1..n |-> 10 * (n - i + 1)] }

\* one categorical column of DetailLimit + MaxOver rows holding `distinct`
\* values (0: all cells missing)
TallTable(name, distinct) ==
  LET n == DetailLimit + MaxOver
  IN  [index   |-> RangeIndex(n),
       columns |-> << [name |-> name, dtype |-> "object",
                       data |-> IF distinct = 0
                                THEN ColumnData("object", n, {}, 1)
                                ELSE ColumnData("object", n, 1..n, distinct)] >>]

-----------------------------------------------------------------------------
(* The state machine.                                                      *)

NoReturn == [op |-> "none", raised |-> FALSE, value |-> <<>>]

\* the caller holds `table` and has built an analyzer and an agent on it
Built(table) ==
  /\ df = table
  /\ df0 = table
  /\ analyzer = KPIAnalyzerInit(table)
  /\ agent = DataExplorerAgentInit(table)
  /\ ret = NoReturn
  /\ calls = <<>>

\* a table of up to MaxRows rows and up to MaxCols columns named from
\* `names`; a bool column has no missing cell
BuiltSmall(names, custom_index) ==
  \E n \in 0..MaxRows :
     \E index \in (IF custom_index THEN Indexes(n) ELSE { RangeIndex(n) }) :
        \E chosen \in { S \in SUBSET (1..Len(names)) : Cardinality(S) <= MaxCols } :
           \E dtypes \in [chosen -> Dtypes] :
              \E missing \in [chosen -> 0..n] :
                 /\ \A a \in chosen : dtypes[a] = "bool" => missing[a] = 0
                 /\ Built(TableOf(names, index, chosen, dtypes, missing))

BuiltTall ==
  \E a \in 1..Len(Names) :
     \E distinct \in 0..(DetailLimit + MaxOver) :
        Built(TallTable(Names[a], distinct))

\* the tables on which every operation is explored
Init == BuiltSmall(AgentNames, TRUE)

\* the tables on which suggest() is explored
InitKPI == BuiltSmall(Names, FALSE) \/ BuiltTall

\* analyzer = KPIAnalyzer(df)
NewAnalyzer ==
  /\ ret.op = "none"
  /\ analyzer' = KPIAnalyzerInit(df)
  /\ UNCHANGED << df, df0, agent, ret, calls >>

\* agent = DataExplorerAgent(df)
NewAgent ==
  /\ ret.op = "none"
  /\ agent' = DataExplorerAgentInit(df)
  /\ UNCHANGED << df, df0, analyzer, ret, calls >>

\* metrics, details = analyzer.suggest()
Suggest ==
  /\ ret.op = "none"
  /\ ret' = [op |-> "suggest", raised |-> FALSE, value |-> suggest(df, analyzer)]
  /\ df' = SelfDfAfterSuggest(df)
  /\ calls' = <<>>
  /\ UNCHANGED << df0, analyzer, agent >>

\* agent.correlation_heatmap()
CorrelationHeatmap ==
  \E outcome \in HeatmapOutcomes(agent) :
     /\ ret.op = "none"
     /\ ret' = correlation_heatmap(agent, outcome)
     /\ calls' = <<>>
     /\ UNCHANGED << df, df0, analyzer, agent >>

\* agent.detect_outliers()
DetectOutliers ==
  \E preds \in IsolationForestOutcomes(agent) :
     LET r == detect_outliers(agent, DefaultContamination, preds)
     IN  /\ ret.op = "none"
         /\ ret' = r.ret
         /\ calls' = r.calls
         /\ UNCHANGED << df, df0, analyzer, agent >>

\* agent.cluster(n_clusters)
Cluster ==
  \E n_clusters \in 1..MaxClusters :
     \E labels \in KMeansOutcomes(agent, n_clusters) :
        LET r == cluster(agent, n_clusters, labels)
        IN  /\ ret.op = "none"
            /\ ret' = r.ret
            /\ calls' = r.calls
            /\ UNCHANGED << df, df0, analyzer, agent >>

\* the page shows what the invocation returned (or its error) before the
\* next invocation is made: one operation at a time
Render ==
  /\ ret.op # "none"
  /\ ret' = NoReturn
  /\ calls' = <<>>
  /\ UNCHANGED << df, df0, analyzer, agent >>

\* the KPI page and the advanced page, on the table of the session
Next ==
  \/ NewAnalyzer
  \/ NewAgent
  \/ Suggest
  \/ CorrelationHeatmap
  \/ DetectOutliers
  \/ Cluster
  \/ Render

Spec == Init /\ [][Next]_vars

\* the KPI page alone
NextKPI ==
  \/ NewAnalyzer
  \/ Suggest
  \/ Render

SpecKPI == InitKPI /\ [][NextKPI]_vars

-----
(* Properties.                                                             *)

Suggested == ret.op = "suggest"
Metrics == ret.value.metrics
Details == ret.value.details

\* the cells of a column that are not missing
Present(column) == {i \in 1..Len(column.data) : column.data[i] # <<>>}

AllMissing(column) == Present(column) = {}

\* the returned metrics whose source column is `name`, as positions
MetricsOf(name) == {i \in 1..Len(Metrics) : Metrics[i].column = name}

\* the rules whose keywords occur in the lowercased name, as positions
Matching(rules, name) ==
  {i \in 1..Len(rules) :
     \E k \in 1..Len(rules[i].keywords) :
        Contains(rules[i].keywords[k], Lower(name))}

Minimum(S) == CHOOSE m \in S : \A k \in S : m <= k

(* C1: the metric list returned by suggest() holds no two metrics with the *)
(* same (label, column) pair.                                              *)
C1_NoDuplicateKeys ==
  Suggested =>
    \A i, j \in 1..Len(Metrics) :
       (Metrics[i].label = Metrics[j].label
          /\ Metrics[i].column = Metrics[j].column) => i = j

\* suggest() has returned metrics of three stages
C1_Witness ==
  /\ Suggested
  /\ Len(Metrics) >= 6
  /\ \E i, j \in 1..Len(Metrics) :
        Metrics[i].column # None /\ Metrics[j].column # None
          /\ Metrics[i].column # Metrics[j].column

(* C2: a numeric column with a non-missing value whose lowercased name     *)
(* holds a keyword of some numeric rule gets exactly one metric, the one   *)
(* of the earliest matching rule: its label, its sum or mean over the      *)
(* non-missing values, its formatter.                                      *)
C2_FirstRuleWins ==
  Suggested =>
    \A j \in 1..Cols(df) :
       LET column == df.columns[j]
           hits   == Matching(NumericRules, column.name)
       IN  (column.dtype \in NumberDtypes /\ ~AllMissing(column) /\ hits # {})
           => LET rule   == NumericRules[Minimum(hits)]
                  series == dropna(column.data)
                  total  == SumFrom(series, 1)
                  value  == IF rule.agg = "sum" THEN Rat(total, 1)
                            ELSE Rat(total, Len(series))
                  shown  == IF rule.formatter = "_format_percent"
                            THEN _format_percent(value, PercentDecimals)
                            ELSE _format_number(value, DefaultDecimals)
              IN  /\ Cardinality(MetricsOf(column.name)) = 1
                  /\ \A i \in MetricsOf(column.name) :
                        /\ Metrics[i].label =
                             << rule.label, " (" >> \o column.name \o << ")" >>
                        /\ Metrics[i].value = shown

\* "Sales_Amount" holding 250 and 1 matches the revenue rule ("sales") and
\* the average-value rule ("amount"); the one metric is the revenue sum 251
C2_Witness ==
  /\ Suggested
  /\ Cardinality(Matching(NumericRules, SalesAmount)) >= 2
  /\ \E j \in 1..Cols(df) :
        /\ df.columns[j].name = SalesAmount
        /\ df.columns[j].dtype = "float64"
        /\ df.columns[j].data = << <<250>>, <<1>> >>
  /\ \E i \in 1..Len(Metrics) :
        /\ Metrics[i].column = SalesAmount
        /\ Metrics[i].label[1] = "Revenu total"
        /\ Metrics[i].value = << "2", "5", "1" >>

DetailTitled(name) ==
  \E i \in 1..Len(Details) : Details[i].title = << "Répartition de " >> \o name

DistinctValues(column) == {column.data[i] : i \in Present(column)}

(* C3: a detail table titled "Répartition de {column}" is produced for a   *)
(* categorical column exactly when it has between 1 and 25 distinct        *)
(* non-missing values.                                                     *)
C3_DetailIffOneTo25 ==
  Suggested =>
    \A j \in 1..Cols(df) :
       df.columns[j].dtype \in CategoricalDtypes
       => (DetailTitled(df.columns[j].name)
             <=> Cardinality(DistinctValues(df.columns[j])) \in 1..25)

\* a categorical column of exactly 25 distinct values got its detail table
C3_Witness ==
  /\ Suggested
  /\ \E j \in 1..Cols(df) :
        /\ df.columns[j].dtype = "object"
        /\ Cardinality(DistinctValues(df.columns[j])) = 25
        /\ DetailTitled(df.columns[j].name)

(* C4: suggest() on an empty table (0 rows, 0 columns) returns exactly 2   *)
(* metrics, the row count "0" and the column count "0", both with no       *)
(* source column, and 0 details.                                           *)
C4_EmptyTable ==
  (Suggested /\ Rows(df) = 0 /\ Cols(df) = 0) =>
    /\ Len(Metrics) = 2
    /\ Metrics[1].label = << "Lignes disponibles" >>
    /\ Metrics[1].value = << "0" >>
    /\ Metrics[1].column = None
    /\ Metrics[2].label = << "Colonnes disponibles" >>
    /\ Metrics[2].value = << "0" >>
    /\ Metrics[2].column = None
    /\ Len(Details) = 0

\* suggest() has returned on the table without rows and columns
C4_Witness == Suggested /\ Rows(df) = 0 /\ Cols(df) = 0 /\ Len(Metrics) = 2

\* the table without its all-missing columns
WithoutAllMissing(frame) ==
  [index   |-> frame.index,
   columns |-> SelectSeq(frame.columns, LAMBDA c : ~AllMissing(c))]

SourcedMetrics(metrics) == SelectSeq(metrics, LAMBDA m : m.column # None)

(* C5: a column whose values are all missing contributes nothing to the    *)
(* result of suggest(): no metric and no detail has it as its source, and  *)
(* suggest() returns, with the metrics and details of the other columns.   *)
C5_AllMissingContributesNothing ==
  Suggested =>
    /\ ~ret.raised
    /\ \A j \in 1..Cols(df) :
          AllMissing(df.columns[j])
          => /\ MetricsOf(df.columns[j].name) = {}
             /\ ~DetailTitled(df.columns[j].name)
    /\ LET rest == WithoutAllMissing(df)
           alone == suggest(rest, KPIAnalyzerInit(rest))
       IN  /\ SourcedMetrics(Metrics) = SourcedMetrics(alone.metrics)
           /\ Details = alone.details

\* an all-missing numeric column beside a column that produced metrics
C5_Witness ==
  /\ Suggested
  /\ Rows(df) > 0
  /\ \E j \in 1..Cols(df) :
        df.columns[j].dtype = "float64" /\ AllMissing(df.columns[j])
  /\ Len(Metrics) > 2

ClusterReturned ==
  /\ ~ret.raised
  /\ Len(ret.value.values) = Rows(df)
  /\ ret.value.index = df.index

(* C6, as claimed: cluster(n_clusters=k) on a non-empty numeric table      *)
(* returns a label sequence as long as the table and indexed like it, for  *)
(* every k.                                                                *)
C6_Original ==
  (ret.op = "cluster" /\ ~Empty(agent.df)) => ClusterReturned

(* C6, amended: cluster(n_clusters=k) on a non-empty numeric table of at   *)
(* least k rows returns a label sequence as long as the table and indexed  *)
(* like it; with fewer than k rows KMeans raises and nothing is returned.  *)
C6_ClusterAligned ==
  (ret.op = "cluster" /\ ~Empty(agent.df)) =>
    IF calls[1].n_clusters <= Rows(df) THEN ClusterReturned ELSE ret.raised

\* two rows under caller-chosen index labels were clustered into two
C6_Witness ==
  /\ ret.op = "cluster"
  /\ ~ret.raised
  /\ Rows(df) = 2
  /\ df.index # RangeIndex(2)
  /\ calls[1].n_clusters = 2
  /\ ret.value.index = df.index

(* C7: after any sequence of suggest(), correlation_heatmap(),             *)
(* detect_outliers() and cluster(), the caller's table is unchanged.       *)
C7_TableUnchanged == df = df0

\* detect_outliers() fitted a zero-filled copy that differs from the
\* agent's frame, and the caller's table still has its missing cells
C7_Witness ==
  /\ ret.op = "detect_outliers"
  /\ Len(calls) = 3
  /\ calls[2].data # agent.df
  /\ \E j \in 1..Cols(df) :
        df.columns[j].dtype = "float64"
          /\ Present(df.columns[j]) \notin {{}, 1..Rows(df)}
  /\ df = df0

SameButCase(a, b) ==
  /\ a # b
  /\ Len(a) = Len(b)
  /\ \A i \in 1..Len(a) : LowerChar(a[i]) = LowerChar(b[i])

\* what was emitted for a column: the rule label and the value of each metric
Emitted(name) ==
  LET at == SelectSeq([i \in 1..Len(Metrics) |-> i],
                      LAMBDA i : Metrics[i].column = name)
  IN  [k \in 1..Len(at) |-> << Metrics[at[k]].label[1], Metrics[at[k]].value >>]

(* C8: two columns whose names differ only in letter case and that hold    *)
(* the same values select the same rule (or both none), numeric and        *)
(* categorical rules alike.                                                *)
C8_CaseInsensitive ==
  Suggested =>
    \A i, j \in 1..Cols(df) :
       (/\ SameButCase(df.columns[i].name, df.columns[j].name)
        /\ df.columns[i].dtype = df.columns[j].dtype
        /\ df.columns[i].data = df.columns[j].data)
       => Emitted(df.columns[i].name) = Emitted(df.columns[j].name)

\* "CLIENT_REVENUE" and "client_revenue", both numeric with the same
\* values, both got the revenue rule
C8_Witness ==
  /\ Suggested
  /\ \E i, j \in 1..Cols(df) :
        /\ df.columns[i].name = ClientRevenueUpper
        /\ df.columns[j].name = ClientRevenueLower
        /\ df.columns[i].dtype = "float64"
        /\ df.columns[j].dtype = "float64"
        /\ df.columns[i].data = df.columns[j].data
        /\ ~AllMissing(df.columns[i])
  /\ Len(Emitted(ClientRevenueUpper)) = 1
  /\ Emitted(ClientRevenueUpper)[1][1] = "Revenu total"
  /\ Emitted(ClientRevenueLower) = Emitted(ClientRevenueUpper)

(* C9: detect_outliers on a numeric subset of zero rows returns an empty   *)
(* result and never constructs, fits or queries the isolation forest.      *)
C9_NoModelOnZeroRows ==
  (ret.op = "detect_outliers" /\ Rows(agent.df) = 0) =>
    /\ ~ret.raised
    /\ ret.value = EmptyFrame
    /\ calls = <<>>

\* detect_outliers() has returned on numeric columns without rows
C9_Witness ==
  /\ ret.op = "detect_outliers"
  /\ Rows(agent.df) = 0
  /\ Cols(agent.df) > 0
  /\ Cols(agent.df) = Cols(df)
  /\ ret.value = EmptyFrame

\* the stage a metric comes from, by the dtype of its source column
StageOf(metric) ==
  IF metric.column = None THEN 1
  ELSE LET dtype == (CHOOSE c \in {df.columns[j] : j \in 1..Cols(df)} :
                        c.name = metric.column).dtype
       IN  CASE dtype \in NumberDtypes      -> 2
             [] dtype \in CategoricalDtypes -> 3
             [] OTHER                       -> 4

(* C10: with unique column names the deduplication removes nothing: the    *)
(* returned metrics are the base metrics (row count, column count), then   *)
(* the numeric, the categorical and the datetime stage's metrics.          *)
C10_StagesInOrder ==
  (Suggested /\ UniqueNames(df.columns)) =>
    /\ Metrics = _base_metrics(df)
                   \o _numeric_keyword_metrics(analyzer)
                   \o _categorical_metrics(analyzer)
                   \o _datetime_metrics(df)
    /\ Len(Metrics) >= 2
    /\ Metrics[1].label = << "Lignes disponibles" >>
    /\ Metrics[2].label = << "Colonnes disponibles" >>
    /\ \A i, j \in 1..Len(Metrics) :
          i < j => StageOf(Metrics[i]) <= StageOf(Metrics[j])

\* a datetime column placed before a numeric one: the numeric metric still
\* comes third, the datetime metrics last
C10_Witness ==
  /\ Suggested
  /\ Cols(df) = 2
  /\ df.columns[1].dtype = "datetime64[ns]"
  /\ df.columns[2].dtype = "float64"
  /\ Len(Metrics) >= 5
  /\ Metrics[3].column = df.columns[2].name
  /\ Metrics[Len(Metrics)].column = df.columns[1].name

====
